---- MODULE Spec2Model ----
(***************************************************************************)
(* Conversation/session model of the Local Chat Companion:                 *)
(*   src/src/chat/conversation.py  (ConversationTurn, Conversation,        *)
(*                                  ConversationManager)                   *)
(*   src/src/ui/cli.py             (CLIInterface chat loop)                *)
(*   src/src/chat/lm_studio.py     (ChatMessage, ChatResponse,             *)
(*                                  LMStudioClient.chat_completion)        *)
(*                                                                         *)
(* Python values keep their run-time type in the field "kind": a           *)
(* ChatMessage dataclass and the dict that json.load gives back for it are *)
(* different values, as they are in the program.                           *)
(***************************************************************************)
EXTENDS Integers, Sequences, FiniteSets, TLC

VARIABLES
    cur,        \* ConversationManager.current_conversation (None or a Conversation)
    store,      \* sessions_dir: conversation id -> JSON document of <id>.json
    config,     \* Config: max_session_memory, auto_save_sessions
    clock,      \* what the next datetime.now(timezone.utc) returns
    uuid,       \* number of uuid.uuid4() values drawn so far
    pc,         \* CLIInterface: "init", "input" (awaiting input), "loaded" (inside /load) or "done"
    result,     \* the last operation: its name, argument and outcome
    ret,        \* what the last operation returned (None when it raised)
    failed,     \* history: ids of the turns whose model call failed or was interrupted
    sinceComplete \* history: a response was attached and no user message appended since

vars == <<cur, store, config, clock, uuid, pc, result, ret, failed, sinceComplete>>

(***************************************************************************)
(* Bounds of the model.                                                    *)
(***************************************************************************)
MaxUuid == 3          \* uuid4() values drawn in one run
MaxTurns == 2         \* turns in one conversation of a run
MaxWindowTurns == 5   \* turns of the conversations the window is built from

Texts == {"hi", "yo"}             \* user inputs
Replies == {"sure"}               \* assistant texts the model server returns

(***************************************************************************)
(* Python values.                                                          *)
(***************************************************************************)
None == [kind |-> "None"]

Str(s) == [kind |-> "str", s |-> s]

PyInt(n) == [kind |-> "int", n |-> n]

\* a timezone-aware datetime in UTC, t counted in clock ticks
Datetime(t) == [kind |-> "datetime", t |-> t, tz |-> "UTC"]

\* bool(x) for the values the code tests: None and "" are false
Truthy(x) == x # None /\ x # Str("")

ChatMessage(role, content) == [kind |-> "ChatMessage", role |-> role, content |-> content]

ChatResponse(text) ==
    [kind |-> "ChatResponse", message |-> ChatMessage("assistant", text), id |-> "chatcmpl"]

\* an isoformat that writes the wall-clock digits without the UTC offset
isoformat_naive(dt) == [kind |-> "isostr", digits |-> dt.t, offset |-> ""]

\* datetime.isoformat(): "....+00:00" for an aware UTC datetime
isoformat(dt) == [kind |-> "isostr", digits |-> dt.t, offset |-> "+00:00"]

\* datetime.fromisoformat(): the offset of the text becomes the tzinfo
fromisoformat(s) ==
    [kind |-> "datetime", t |-> s.digits, tz |-> IF s.offset = "+00:00" THEN "UTC" ELSE "naive"]

\* dataclasses.asdict on a ChatMessage (or a deep copy of the dict it already is)
asdict_message(m) == [kind |-> "dict", role |-> m.role, content |-> m.content]

\* dataclasses.asdict on an Optional[ChatResponse] (or on the dict it already is)
asdict_response(r) ==
    IF r = None THEN None
    ELSE [kind |-> "dict", message |-> asdict_message(r.message), id |-> r.id]

DefaultStyle == "friend"          \* Config.default_style

(***************************************************************************)
(* ConversationTurn                                                        *)
(***************************************************************************)
ConversationTurn(id, timestamp, user_message, assistant_response) ==
    [kind |-> "ConversationTurn", id |-> id, timestamp |-> timestamp,
     user_message |-> user_message, assistant_response |-> assistant_response]

turn_to_dict(t) ==
    [kind |-> "dict", id |-> t.id, timestamp |-> isoformat(t.timestamp),
     user_message |-> asdict_message(t.user_message),
     assistant_response |-> asdict_response(t.assistant_response)]

\* cls(**data): the nested user_message and assistant_response stay the dicts
\* that json.load produced
turn_from_dict(d) ==
    ConversationTurn(d.id, fromisoformat(d.timestamp), d.user_message, d.assistant_response)

(***************************************************************************)
(* Conversation                                                            *)
(***************************************************************************)
Conversation(id, title, created_at, updated_at, turns, system_prompt, metadata) ==
    [kind |-> "Conversation", id |-> id, title |-> title, created_at |-> created_at,
     updated_at |-> updated_at, turns |-> turns, system_prompt |-> system_prompt,
     metadata |-> metadata]

\* add_turn putting the new turn in front of the others
add_turn_front(conv, user_message, id, now1, now2) ==
    [conv EXCEPT !.turns = <<ConversationTurn(id, now1, ChatMessage("user", user_message), None)>> \o @,
                 !.updated_at = now2]

\* Conversation.add_turn: id is the uuid drawn, now1 and now2 the two clock reads
add_turn(conv, user_message, id, now1, now2) ==
    [conv EXCEPT !.turns = Append(@, ConversationTurn(id, now1, ChatMessage("user", user_message), None)),
                 !.updated_at = now2]

\* self.turns[-max_turns:] if max_turns else self.turns   (max_turns: None or PyInt(k))
turns_to_include(turns, max_turns) ==
    IF max_turns = None \/ max_turns = PyInt(0) THEN turns
    ELSE LET n == Len(turns)
             k == max_turns.n
             \* Python slice start for [-k:], clamped to [0, n]
             start == IF k > 0 THEN (IF n - k < 0 THEN 0 ELSE n - k)
                      ELSE (IF -k > n THEN n ELSE -k)
         IN SubSeq(turns, start + 1, n)

\* the messages one turn contributes; turn.assistant_response.message is an
\* attribute access, which a dict does not have
RECURSIVE turn_messages(_)
turn_messages(turns) ==
    IF turns = <<>> THEN <<>>
    ELSE LET turn == Head(turns)
         IN <<turn.user_message>>
            \o (IF Truthy(turn.assistant_response) THEN <<turn.assistant_response.message>> ELSE <<>>)
            \o turn_messages(Tail(turns))

\* does the loop of get_messages_for_llm raise AttributeError on these turns
raises_attribute_error(turns) ==
    \E i \in 1..Len(turns) :
        /\ Truthy(turns[i].assistant_response)
        /\ turns[i].assistant_response.kind # "ChatResponse"

AttributeError == [kind |-> "raised", error |-> "AttributeError"]

\* Conversation.get_messages_for_llm: the list of messages, or the exception raised
get_messages_for_llm(conv, max_turns) ==
    LET included == turns_to_include(conv.turns, max_turns)
        system == IF Truthy(conv.system_prompt)
                  THEN <<ChatMessage("system", conv.system_prompt.s)>> ELSE <<>>
    IN IF raises_attribute_error(included) THEN AttributeError
       ELSE [kind |-> "list", items |-> system \o turn_messages(included)]

\* get_last_incomplete_turn looking for the first turn without a response
get_first_incomplete_turn(conv) ==
    IF \E i \in 1..Len(conv.turns) : ~Truthy(conv.turns[i].assistant_response)
    THEN CHOOSE i \in 1..Len(conv.turns) :
            /\ ~Truthy(conv.turns[i].assistant_response)
            /\ \A j \in 1..(i - 1) : Truthy(conv.turns[j].assistant_response)
    ELSE 0

\* get_last_incomplete_turn without the test of the response
get_last_turn(conv) == Len(conv.turns)

\* Conversation.get_last_incomplete_turn: index of the turn, 0 for None
get_last_incomplete_turn(conv) ==
    IF conv.turns # <<>> /\ ~Truthy(conv.turns[Len(conv.turns)].assistant_response)
    THEN Len(conv.turns) ELSE 0

RECURSIVE map_turn_to_dict(_)
map_turn_to_dict(turns) ==
    IF turns = <<>> THEN <<>> ELSE <<turn_to_dict(Head(turns))>> \o map_turn_to_dict(Tail(turns))

RECURSIVE map_turn_from_dict(_)
map_turn_from_dict(ds) ==
    IF ds = <<>> THEN <<>> ELSE <<turn_from_dict(Head(ds))>> \o map_turn_from_dict(Tail(ds))

\* Conversation.to_dict, as json.dump writes it and json.load reads it back
to_dict(conv) ==
    [kind |-> "dict", id |-> conv.id, title |-> conv.title,
     created_at |-> isoformat(conv.created_at), updated_at |-> isoformat(conv.updated_at),
     turns |-> map_turn_to_dict(conv.turns), system_prompt |-> conv.system_prompt,
     metadata |-> conv.metadata]

\* {}: the default of the metadata fields
EmptyDict == [kind |-> "dict"]

\* data.get(key, default) and the defaults of the dataclass fields
dict_get(data, key, default) == IF key \in DOMAIN data THEN data[key] ELSE default

from_dict(data) ==
    Conversation(data.id, data.title, fromisoformat(data.created_at),
                 fromisoformat(data.updated_at),
                 map_turn_from_dict(dict_get(data, "turns", <<>>)),
                 dict_get(data, "system_prompt", None),
                 dict_get(data, "metadata", EmptyDict))

\* what data[key] followed by datetime.fromisoformat raises: KeyError for a
\* missing key, TypeError for null, ValueError for text that is no ISO date
timestamp_error(data, key) ==
    IF key \notin DOMAIN data THEN "KeyError"
    ELSE IF data[key] = None THEN "TypeError"
    ELSE IF data[key].kind # "isostr" THEN "ValueError"
    ELSE "none"

\* what ConversationTurn.from_dict raises on one element of "turns"
turn_from_dict_error(d) ==
    IF timestamp_error(d, "timestamp") # "none" THEN timestamp_error(d, "timestamp")
    ELSE IF ~({"id", "user_message"} \subseteq DOMAIN d) THEN "TypeError"
    ELSE "none"

\* what Conversation.from_dict raises on a parsed document, "none" if it returns
from_dict_error(data) ==
    LET turns == dict_get(data, "turns", <<>>)
    IN IF timestamp_error(data, "created_at") # "none" THEN timestamp_error(data, "created_at")
       ELSE IF timestamp_error(data, "updated_at") # "none" THEN timestamp_error(data, "updated_at")
       ELSE IF \E i \in 1..Len(turns) : turn_from_dict_error(turns[i]) # "none"
       THEN turn_from_dict_error(
                turns[CHOOSE i \in 1..Len(turns) :
                          /\ turn_from_dict_error(turns[i]) # "none"
                          /\ \A j \in 1..(i - 1) : turn_from_dict_error(turns[j]) = "none"])
       ELSE IF ~({"id", "title"} \subseteq DOMAIN data) THEN "TypeError"
       ELSE "none"

(***************************************************************************)
(* ConversationManager.  Each operator takes the manager's state and the   *)
(* values the call draws (clock reads, uuid, I/O outcome) and gives the    *)
(* state after the call together with what the call returned or raised.    *)
(***************************************************************************)
\* _get_default_system_prompt: prompts.get(style, prompts["custom"])
get_default_system_prompt(style) ==
    IF style \in {"friend", "coach", "assistant", "custom"}
    THEN Str("You are a " \o style) ELSE Str("You are a custom")

\* f"Chat {now.strftime('%Y-%m-%d %H:%M')}"
DefaultTitle(now) == [kind |-> "str", s |-> "Chat", at |-> now.t]

\* start_new_conversation reading the clock once for each of the two times
start_new_conversation_two_clocks(title, system_prompt, now, id) ==
    Conversation(id,
                 IF Truthy(title) THEN title ELSE DefaultTitle(now),
                 now, Datetime(now.t + 1), <<>>,
                 IF Truthy(system_prompt) THEN system_prompt
                 ELSE get_default_system_prompt(DefaultStyle),
                 [style |-> DefaultStyle])

\* ConversationManager.start_new_conversation
start_new_conversation(title, system_prompt, now, id) ==
    Conversation(id,
                 IF Truthy(title) THEN title ELSE DefaultTitle(now),
                 now, now, <<>>,
                 IF Truthy(system_prompt) THEN system_prompt
                 ELSE get_default_system_prompt(DefaultStyle),
                 [style |-> DefaultStyle])

\* add_user_message that appends the message to the conversation it starts and
\* then once more
add_user_message_twice(c, message, clk, u) ==
    IF Truthy(c)
    THEN [cur |-> add_turn(c, message, u + 1, Datetime(clk), Datetime(clk + 1)),
          clock |-> clk + 2, uuid |-> u + 1]
    ELSE [cur |-> add_turn(add_turn(start_new_conversation(None, None, Datetime(clk), u + 1),
                                    message, u + 2, Datetime(clk + 1), Datetime(clk + 2)),
                           message, u + 2, Datetime(clk + 1), Datetime(clk + 2)),
          clock |-> clk + 3, uuid |-> u + 2]

\* ConversationManager.add_user_message on the manager state (c, clk, u)
add_user_message(c, message, clk, u) ==
    LET implicit == ~Truthy(c)
        conv == IF implicit THEN start_new_conversation(None, None, Datetime(clk), u + 1) ELSE c
        clk1 == IF implicit THEN clk + 1 ELSE clk
        u1 == IF implicit THEN u + 1 ELSE u
    IN [cur |-> add_turn(conv, message, u1 + 1, Datetime(clk1), Datetime(clk1 + 1)),
        clock |-> clk1 + 2, uuid |-> u1 + 1]

\* add_assistant_response attaching to the last turn whether or not it is complete
add_assistant_response_overwrite(c, response, clk) ==
    IF ~Truthy(c)
    THEN [cur |-> c, clock |-> clk, status |-> "NoActiveConversation"]
    ELSE IF c.turns = <<>>
    THEN [cur |-> c, clock |-> clk, status |-> "NoIncompleteTurn"]
    ELSE [cur |-> [c EXCEPT !.turns[Len(c.turns)].assistant_response = response,
                            !.updated_at = Datetime(clk)],
          clock |-> clk + 1, status |-> "ok"]

\* add_assistant_response that also stamps the completed turn with the time of
\* the response
add_assistant_response_restamps(c, response, clk) ==
    IF ~Truthy(c)
    THEN [cur |-> c, clock |-> clk, status |-> "NoActiveConversation"]
    ELSE LET last == get_last_incomplete_turn(c)
         IN IF last = 0
            THEN [cur |-> c, clock |-> clk, status |-> "NoIncompleteTurn"]
            ELSE [cur |-> [c EXCEPT !.turns[last].assistant_response = response,
                                    !.turns[last].timestamp = Datetime(clk),
                                    !.updated_at = Datetime(clk)],
                  clock |-> clk + 1, status |-> "ok"]

\* ConversationManager.add_assistant_response
add_assistant_response(c, response, clk) ==
    IF ~Truthy(c)
    THEN [cur |-> c, clock |-> clk, status |-> "NoActiveConversation"]
    ELSE LET last == get_last_incomplete_turn(c)
         IN IF last = 0
            THEN [cur |-> c, clock |-> clk, status |-> "NoIncompleteTurn"]
            ELSE [cur |-> [c EXCEPT !.turns[last].assistant_response = response,
                                    !.updated_at = Datetime(clk)],
                  clock |-> clk + 1, status |-> "ok"]

\* a window that cuts self.turns down to the turns it includes
turns_after_window_trimmed(turns, max_turns) == turns_to_include(turns, max_turns)

\* self.turns after get_messages_for_llm: the slice self.turns[-max_turns:] is a
\* new list, the messages are appended to another new list
turns_after_window(turns, max_turns) == turns

\* ConversationManager.get_messages_for_llm
manager_get_messages_for_llm(c, cfg) ==
    IF ~Truthy(c) THEN [kind |-> "list", items |-> <<>>]
    ELSE get_messages_for_llm(c, PyInt(cfg.max_session_memory))

\* what open(filepath, 'w') and json.dump can do to the file
IoOutcomes == {"ok", "open_fails", "write_fails"}

\* a file that open(..., 'w') truncated and json.dump did not finish
Truncated == [kind |-> "truncated"]

\* a write that leaves an existing file as it is
PutDocIfAbsent(st, id, doc) ==
    IF id \in DOMAIN st THEN st
    ELSE [i \in DOMAIN st \cup {id} |-> IF i = id THEN doc ELSE st[i]]

\* open(filepath, 'w'): creates the file or replaces what it held
PutDoc(st, id, doc) == [i \in DOMAIN st \cup {id} |-> IF i = id THEN doc ELSE st[i]]

\* save_conversation opening the file before it looks for a conversation
save_conversation_opens_first(c, st, io) ==
    IF ~Truthy(c) THEN [store |-> [i \in DOMAIN st \cup {0} |-> Truncated], status |-> "NoConversation"]
    ELSE IF io = "ok" THEN [store |-> PutDoc(st, c.id, to_dict(c)), status |-> "ok"]
    ELSE IF io = "write_fails" THEN [store |-> PutDoc(st, c.id, Truncated), status |-> "PersistenceError"]
    ELSE [store |-> st, status |-> "PersistenceError"]

\* ConversationManager.save_conversation() on the current conversation
save_conversation(c, st, io) ==
    IF ~Truthy(c) THEN [store |-> st, status |-> "NoConversation"]
    ELSE IF io = "ok" THEN [store |-> PutDoc(st, c.id, to_dict(c)), status |-> "ok"]
    ELSE IF io = "write_fails" THEN [store |-> PutDoc(st, c.id, Truncated), status |-> "PersistenceError"]
    ELSE [store |-> st, status |-> "PersistenceError"]

\* load_conversation giving an empty conversation for an id with no document
load_conversation_or_new(st, id) ==
    IF id \notin DOMAIN st
    THEN [status |-> "ok",
          ret |-> Conversation(id, Str("Trip"), Datetime(0), Datetime(0), <<>>, None,
                               [style |-> DefaultStyle])]
    ELSE IF st[id] = Truncated THEN [status |-> "JSONDecodeError", ret |-> None]
    ELSE IF from_dict_error(st[id]) # "none" THEN [status |-> from_dict_error(st[id]), ret |-> None]
    ELSE [status |-> "ok", ret |-> from_dict(st[id])]

\* ConversationManager.load_conversation: the conversation returned, or the error raised
load_conversation(st, id) ==
    IF id \notin DOMAIN st THEN [status |-> "NotFound", ret |-> None]
    ELSE IF st[id] = Truncated THEN [status |-> "JSONDecodeError", ret |-> None]
    ELSE IF from_dict_error(st[id]) # "none" THEN [status |-> from_dict_error(st[id]), ret |-> None]
    ELSE [status |-> "ok", ret |-> from_dict(st[id])]

\* the summary list_conversations appends for one parsed document
summary(data) ==
    [kind |-> "dict", id |-> data.id, title |-> data.title,
     created_at |-> data.created_at, updated_at |-> data.updated_at,
     turns_count |-> Len(dict_get(data, "turns", <<>>)),
     metadata |-> dict_get(data, "metadata", EmptyDict)]

\* the body of the try block raises (json.load on a cut-off file, data[key] on
\* a missing key), so the file is logged and skipped
list_skips(data) ==
    \/ data = Truncated
    \/ ~({"id", "title", "created_at", "updated_at"} \subseteq DOMAIN data)

\* the loop over glob("*.json"), which yields the files in the order `order`
RECURSIVE list_scan(_, _)
list_scan(st, order) ==
    IF order = <<>> THEN <<>>
    ELSE IF list_skips(st[Head(order)]) THEN list_scan(st, Tail(order))
    ELSE <<summary(st[Head(order)])>> \o list_scan(st, Tail(order))

\* the key comparison of list.sort raises TypeError when a key is None
sort_raises(conversations) ==
    /\ Len(conversations) >= 2
    /\ \E i \in 1..Len(conversations) : conversations[i].updated_at.kind # "isostr"

\* a descending insertion that puts x in front of the entries equal to it
RECURSIVE sort_insert_before_ties(_, _)
sort_insert_before_ties(sorted, x) ==
    IF sorted = <<>> THEN <<x>>
    ELSE IF Head(sorted).updated_at.digits > x.updated_at.digits
         THEN <<Head(sorted)>> \o sort_insert_before_ties(Tail(sorted), x)
         ELSE <<x>> \o sorted

\* one step of the stable descending sort: x goes behind every entry whose
\* updated_at is not smaller (ISO texts of one offset order as their instants)
RECURSIVE sort_insert(_, _)
sort_insert(sorted, x) ==
    IF sorted = <<>> THEN <<x>>
    ELSE IF Head(sorted).updated_at.digits >= x.updated_at.digits
         THEN <<Head(sorted)>> \o sort_insert(Tail(sorted), x)
         ELSE <<x>> \o sorted

\* conversations.sort(key=lambda x: x["updated_at"], reverse=True)
RECURSIVE sort_updated_at_desc(_)
sort_updated_at_desc(conversations) ==
    IF Len(conversations) <= 1 THEN conversations
    ELSE sort_insert(sort_updated_at_desc(SubSeq(conversations, 1, Len(conversations) - 1)),
                     conversations[Len(conversations)])

\* ConversationManager.list_conversations(); the sort is outside the try block
list_conversations(st, order) ==
    LET conversations == list_scan(st, order)
    IN IF sort_raises(conversations) THEN [status |-> "TypeError", ret |-> None]
       ELSE [status |-> "ok", ret |-> [kind |-> "list", items |-> sort_updated_at_desc(conversations)]]

\* auto_save without the configuration test
auto_save_always(c, st, cfg, io) ==
    IF Truthy(c)
    THEN [store |-> save_conversation(c, st, io).store, status |-> "ok", io |-> io]
    ELSE [store |-> st, status |-> "ok", io |-> "none"]

\* auto_save without the try block: the exception of save_conversation goes up
auto_save_raises(c, st, cfg, io) ==
    IF cfg.auto_save_sessions /\ Truthy(c)
    THEN [store |-> save_conversation(c, st, io).store,
          status |-> save_conversation(c, st, io).status, io |-> io]
    ELSE [store |-> st, status |-> "ok", io |-> "none"]

\* ConversationManager.auto_save: the store afterwards, how the call ends (an
\* exception of save_conversation is logged, not raised) and what the file
\* did when a save was made
auto_save(c, st, cfg, io) ==
    IF cfg.auto_save_sessions /\ Truthy(c)
    THEN [store |-> save_conversation(c, st, io).store, status |-> "ok", io |-> io]
    ELSE [store |-> st, status |-> "ok", io |-> "none"]

(***************************************************************************)
(* State after construction: ConversationManager.__init__ and              *)
(* CLIInterface.__init__.                                                  *)
(***************************************************************************)
MemoryLimits == {1, 50}           \* values of Config.max_session_memory explored

NoResult == [op |-> "none", arg |-> None, status |-> "none"]

Init ==
    /\ cur = None
    /\ store = <<>>
    /\ config \in [max_session_memory : MemoryLimits, auto_save_sessions : BOOLEAN]
    /\ clock = 0
    /\ uuid = 0
    /\ pc = "init"
    /\ result = NoResult
    /\ ret = None
    /\ failed = {}
    /\ sinceComplete = FALSE

CanDraw(k) == uuid + k <= MaxUuid

\* uuid4() calls of add_user_message: one for the turn, one more for an implicit start
AppendDraws == IF Truthy(cur) THEN 1 ELSE 2

Room == IF Truthy(cur) THEN Len(cur.turns) < MaxTurns ELSE TRUE

(***************************************************************************)
(* The manager's operations, called in any order by a client.              *)
(***************************************************************************)
ApiStart(title, system_prompt) ==
    /\ CanDraw(1)
    /\ cur' = start_new_conversation(title, system_prompt, Datetime(clock), uuid + 1)
    /\ clock' = clock + 1
    /\ uuid' = uuid + 1
    /\ result' = [op |-> "start", arg |-> None, status |-> "ok"]
    /\ ret' = cur'
    /\ UNCHANGED <<store, config, pc, failed, sinceComplete>>

ApiAddUserMessage(text) ==
    /\ CanDraw(AppendDraws) /\ Room
    /\ \E r \in {add_user_message(cur, text, clock, uuid)} :
          /\ cur' = r.cur
          /\ clock' = r.clock
          /\ uuid' = r.uuid
          /\ ret' = r.cur.turns[Len(r.cur.turns)]
    /\ result' = [op |-> "add_user_message", arg |-> Str(text), status |-> "ok"]
    /\ sinceComplete' = FALSE
    /\ UNCHANGED <<store, config, pc, failed>>

ApiAddAssistantResponse(text) ==
    /\ \E r \in {add_assistant_response(cur, ChatResponse(text), clock)} :
          /\ cur' = r.cur
          /\ clock' = r.clock
          /\ result' = [op |-> "add_assistant_response", arg |-> Str(text), status |-> r.status]
          /\ sinceComplete' = (sinceComplete \/ r.status = "ok")
    /\ ret' = None
    /\ UNCHANGED <<store, config, uuid, pc, failed>>

ApiGetMessagesForLlm ==
    /\ ret' = manager_get_messages_for_llm(cur, config)
    /\ result' = [op |-> "get_messages_for_llm", arg |-> None,
                  status |-> IF ret'.kind = "list" THEN "ok" ELSE "AttributeError"]
    /\ cur' = IF Truthy(cur)
              THEN [cur EXCEPT !.turns = turns_after_window(@, PyInt(config.max_session_memory))]
              ELSE cur
    /\ UNCHANGED <<store, config, clock, uuid, pc, failed, sinceComplete>>

ApiSaveConversation(io) ==
    \* io is drawn only when a file is written
    /\ Truthy(cur) \/ io = "ok"
    /\ \E r \in {save_conversation(cur, store, io)} :
          /\ store' = r.store
          /\ result' = [op |-> "save_conversation", arg |-> None, status |-> r.status]
    /\ ret' = None
    /\ UNCHANGED <<cur, config, clock, uuid, pc, failed, sinceComplete>>

ApiLoadConversation(id) ==
    /\ \E r \in {load_conversation(store, id)} :
          /\ ret' = r.ret
          /\ result' = [op |-> "load_conversation", arg |-> PyInt(id), status |-> r.status]
    /\ UNCHANGED <<cur, store, config, clock, uuid, pc, failed, sinceComplete>>

ApiAutoSave(io) ==
    \* io is drawn only when a file is written
    /\ (config.auto_save_sessions /\ Truthy(cur)) \/ io = "ok"
    /\ \E r \in {auto_save(cur, store, config, io)} :
          /\ store' = r.store
          /\ result' = [op |-> "auto_save", arg |-> None, status |-> r.status, io |-> r.io]
    /\ ret' = None
    /\ UNCHANGED <<cur, config, clock, uuid, pc, failed, sinceComplete>>

\* the orders in which glob may yield the files of the directory
GlobOrders(st) ==
    { o \in [1..Cardinality(DOMAIN st) -> DOMAIN st] :
        \A i, j \in 1..Cardinality(DOMAIN st) : i # j => o[i] # o[j] }

\* manager.list_conversations()
ApiListConversations(order) ==
    /\ result' = [op |-> "list_conversations", arg |-> [kind |-> "order", seq |-> order],
                  status |-> list_conversations(store, order).status]
    /\ ret' = list_conversations(store, order).ret
    /\ UNCHANGED <<cur, store, config, clock, uuid, pc, failed, sinceComplete>>

\* ids a client asks for: those with a stored document and one without
Ids == DOMAIN store \cup {0}

\* the optional arguments of start: both omitted, or both given
StartArgs == {<<None, None>>, <<Str("Trip"), Str("Be brief")>>}

NextApi ==
    \/ \E a \in StartArgs : ApiStart(a[1], a[2])
    \/ \E text \in Texts : ApiAddUserMessage(text)
    \/ \E text \in Replies : ApiAddAssistantResponse(text)
    \/ ApiGetMessagesForLlm
    \/ \E io \in IoOutcomes : ApiSaveConversation(io)
    \/ \E id \in Ids : ApiLoadConversation(id)
    \/ \E io \in IoOutcomes : ApiAutoSave(io)
    \/ \E order \in GlobOrders(store) : ApiListConversations(order)

SpecApi == Init /\ [][NextApi]_vars

(***************************************************************************)
(* LMStudioClient.chat_completion as the chat loop sees it: the request    *)
(* body reads msg.role and msg.content of every message, then the server   *)
(* answers, fails, or the user interrupts the wait.                        *)
(***************************************************************************)
ModelOutcomes == {"ok", "error", "interrupt"}

\* msg.role on a message that is a dict raises AttributeError
request_raises(messages) == \E i \in 1..Len(messages) : messages[i].kind # "ChatMessage"

\* outcome of get_messages_for_llm followed by chat_completion
chat_completion(window, outcome) ==
    IF window.kind # "list" THEN "AttributeError"
    ELSE IF outcome = "interrupt" THEN "KeyboardInterrupt"
    ELSE IF request_raises(window.items) THEN "AttributeError"
    ELSE IF outcome = "error" THEN "LMStudioError"
    ELSE "ok"

(***************************************************************************)
(* CLIInterface: run() and one action per kind of input to the chat loop.  *)
(***************************************************************************)
\* a chat loop that ends when an exception reaches it
after_exception_exits(error) == "done"

\* run(): `except KeyboardInterrupt` and `except Exception` of the chat loop both
\* print the error and `continue`: the loop is at its prompt again
after_exception(error) == "input"

\* run() up to the first prompt: the client opens, a conversation is started
Run ==
    /\ pc = "init"
    /\ CanDraw(1)
    /\ cur' = start_new_conversation(None, None, Datetime(clock), uuid + 1)
    /\ clock' = clock + 1
    /\ uuid' = uuid + 1
    /\ pc' = "input"
    /\ result' = [op |-> "run", arg |-> None, status |-> "ok"]
    /\ ret' = None
    /\ UNCHANGED <<store, config, failed, sinceComplete>>

\* run(): entering the client context raises, "Failed to connect to LM Studio"
RunFails ==
    /\ pc = "init"
    /\ pc' = "done"
    /\ result' = [op |-> "run", arg |-> None, status |-> "ClientError"]
    /\ ret' = None
    /\ UNCHANGED <<cur, store, config, clock, uuid, failed, sinceComplete>>

\* /new
CmdNew ==
    /\ pc = "input"
    /\ CanDraw(1)
    /\ cur' = start_new_conversation(None, None, Datetime(clock), uuid + 1)
    /\ clock' = clock + 1
    /\ uuid' = uuid + 1
    /\ result' = [op |-> "new", arg |-> None, status |-> "ok"]
    /\ ret' = None
    /\ UNCHANGED <<store, config, pc, failed, sinceComplete>>

\* /save: an exception of save_conversation reaches the loop, which goes on
CmdSave(io) ==
    /\ pc = "input"
    \* io is drawn only when a file is written
    /\ Truthy(cur) \/ io = "ok"
    /\ \E r \in {save_conversation(cur, store, io)} :
          /\ store' = r.store
          /\ result' = [op |-> "save", arg |-> None, status |-> r.status]
          /\ pc' = IF r.status = "PersistenceError" THEN after_exception(r.status) ELSE pc
    /\ ret' = None
    /\ UNCHANGED <<cur, config, clock, uuid, failed, sinceComplete>>

\* an assignment that keeps the turns of the conversation it replaces
assign_loaded_merge(c, conversation) ==
    IF Truthy(c) THEN [conversation EXCEPT !.turns = c.turns \o @] ELSE conversation

\* current_conversation = conversation: the assignment that follows a load
assign_loaded(c, conversation) == conversation

\* /load <id>, first half: load_conversation(args) returns or raises
CmdLoad(id) ==
    /\ pc = "input"
    /\ \E r \in {load_conversation(store, id)} :
          /\ ret' = r.ret
          /\ result' = [op |-> "load", arg |-> PyInt(id), status |-> r.status]
          /\ pc' = IF r.status = "ok" THEN "loaded" ELSE "input"
    /\ UNCHANGED <<cur, store, config, clock, uuid, failed, sinceComplete>>

\* /load <id>, second half: the returned conversation becomes the current one
CmdLoadAssign ==
    /\ pc = "loaded"
    /\ cur' = assign_loaded(cur, ret)
    /\ pc' = "input"
    /\ sinceComplete' = FALSE
    /\ UNCHANGED <<store, config, clock, uuid, result, ret, failed>>

\* /clear, with the answer to "Clear current conversation?"
CmdClear(confirm) ==
    /\ pc = "input"
    /\ cur' = IF confirm THEN None ELSE cur
    /\ result' = [op |-> "clear", arg |-> None, status |-> IF confirm THEN "ok" ELSE "declined"]
    /\ ret' = None
    /\ UNCHANGED <<store, config, clock, uuid, pc, failed, sinceComplete>>

\* /help, /status, /list and unknown commands change nothing of the conversation
CmdHelp ==
    /\ pc = "input"
    /\ result' = [op |-> "help", arg |-> None, status |-> "ok"]
    /\ ret' = None
    /\ UNCHANGED <<cur, store, config, clock, uuid, pc, failed, sinceComplete>>

\* /quit, /exit, /q, with the answer to "Save current conversation before exiting?"
CmdQuit(confirm, io) ==
    /\ pc = "input"
    \* io is drawn only when a file is written
    /\ (Truthy(cur) /\ confirm) \/ io = "ok"
    /\ \E r \in {save_conversation(cur, store, io)} :
       LET saves == Truthy(cur) /\ confirm
       IN /\ store' = IF saves THEN r.store ELSE store
          /\ pc' = IF saves /\ r.status # "ok" THEN after_exception(r.status) ELSE "done"
          /\ result' = [op |-> "quit", arg |-> None,
                        status |-> IF saves THEN r.status ELSE "ok"]
    /\ ret' = None
    /\ UNCHANGED <<cur, config, clock, uuid, failed, sinceComplete>>

\* process_chat_message(text): outcome is what the model call does, io what
\* the file of the auto-save does
ProcessChatMessage(text, reply, outcome, io) ==
    /\ pc = "input"
    \* io is drawn only when a file is written
    /\ (outcome = "ok" /\ config.auto_save_sessions) \/ io = "ok"
    /\ CanDraw(AppendDraws) /\ Room
    /\ \E a \in {add_user_message(cur, text, clock, uuid)} :
       \E window \in {manager_get_messages_for_llm(a.cur, config)} :
       \E status \in {chat_completion(window, outcome)} :
          /\ uuid' = a.uuid
          /\ ret' = window
          /\ IF status = "ok"
             THEN \E b \in {add_assistant_response(a.cur, ChatResponse(reply), a.clock)} :
                  \E s \in {auto_save(b.cur, store, config, io)} :
                     /\ result' = [op |-> "chat", arg |-> Str(text), status |-> s.status, io |-> s.io]
                     /\ cur' = b.cur
                     /\ clock' = b.clock
                     /\ store' = s.store
                     /\ failed' = failed
                     /\ sinceComplete' = TRUE
             ELSE /\ result' = [op |-> "chat", arg |-> Str(text), status |-> status, io |-> "none"]
                  /\ cur' = a.cur
                  /\ clock' = a.clock
                  /\ store' = store
                  /\ failed' = failed \cup {a.uuid}
                  /\ sinceComplete' = FALSE
          \* process_chat_message catches every Exception itself; an interrupt
          \* goes up to the loop
          /\ pc' = IF status = "KeyboardInterrupt" THEN after_exception(status) ELSE pc
    /\ UNCHANGED config

\* an export that leaves out a last turn that has no response yet
export_conversation_complete_turns(st, id) ==
    IF load_conversation(st, id).status # "ok"
    THEN [status |-> load_conversation(st, id).status, ret |-> None]
    ELSE [status |-> "ok",
          ret |-> LET conversation == load_conversation(st, id).ret
                      last == get_last_incomplete_turn(conversation)
                  IN to_dict([conversation EXCEPT
                                 !.turns = IF last = 0 THEN @ ELSE SubSeq(@, 1, last - 1)])]

\* main.py --export-conversation <id> <file>: the document written to the
\* file, or the error after which the program exits with "Export failed"
export_conversation(st, id) ==
    IF load_conversation(st, id).status # "ok"
    THEN [status |-> load_conversation(st, id).status, ret |-> None]
    ELSE [status |-> "ok", ret |-> to_dict(load_conversation(st, id).ret)]

\* a later run of the program with --export-conversation, on the sessions
\* directory the chat left behind
Export(id) ==
    /\ pc = "done"
    /\ \E r \in {export_conversation(store, id)} :
          /\ ret' = r.ret
          /\ result' = [op |-> "export", arg |-> PyInt(id), status |-> r.status]
    /\ UNCHANGED <<cur, store, config, clock, uuid, pc, failed, sinceComplete>>

Next ==
    \/ Run
    \/ RunFails
    \/ CmdNew
    \/ \E io \in IoOutcomes : CmdSave(io)
    \/ \E id \in Ids : CmdLoad(id)
    \/ CmdLoadAssign
    \/ \E confirm \in BOOLEAN : CmdClear(confirm)
    \/ CmdHelp
    \/ \E confirm \in BOOLEAN, io \in IoOutcomes : CmdQuit(confirm, io)
    \/ \E text \in Texts, reply \in Replies, outcome \in ModelOutcomes, io \in IoOutcomes :
           ProcessChatMessage(text, reply, outcome, io)
    \/ \E id \in Ids : Export(id)

Spec == Init /\ [][Next]_vars

(***************************************************************************)
(* Conversation.get_messages_for_llm on its own: the conversation is any   *)
(* conversation the program can hold (turns complete or not, a prefix of   *)
(* the turns read back from a saved document, the rest appended since),    *)
(* max_turns any small integer or None.                                    *)
(***************************************************************************)
\* turn i as add_turn and add_assistant_response leave it
WindowTurn(i, complete) ==
    ConversationTurn(i, Datetime(i), ChatMessage("user", "hi"),
                     IF complete THEN ChatResponse("sure") ELSE None)

\* the turns as they are after a save and load of the first `loaded` of them
WindowTurns(bits, loaded) ==
    LET typed == [i \in 1..Len(bits) |-> WindowTurn(i, bits[i])]
    IN map_turn_from_dict(map_turn_to_dict(SubSeq(typed, 1, loaded)))
       \o SubSeq(typed, loaded + 1, Len(bits))

BitSeqs(n) == [1..n -> BOOLEAN]

WindowConversations ==
    { Conversation(0, Str("Trip"), Datetime(0), Datetime(Len(bits)),
                   WindowTurns(bits, loaded), sp, [style |-> DefaultStyle]) :
        <<bits, loaded, sp>> \in
            { <<b, l, p>> \in (UNION { BitSeqs(n) : n \in 0..MaxWindowTurns })
                              \X (0..MaxWindowTurns) \X {None, Str("Be brief")} :
                  l <= Len(b) } }

WindowLimits == {None} \cup { PyInt(k) : k \in -1..(MaxWindowTurns + 1) }

InitWindow ==
    /\ cur \in WindowConversations
    /\ store = <<>>
    /\ config = [max_session_memory |-> 50, auto_save_sessions |-> TRUE]
    /\ clock = 0
    /\ uuid = 0
    /\ pc = "init"
    /\ result = NoResult
    /\ ret = None
    /\ failed = {}
    /\ sinceComplete = FALSE

\* conversation.get_messages_for_llm(max_turns)
BuildWindow(max_turns) ==
    /\ result.op = "none"
    /\ ret' = get_messages_for_llm(cur, max_turns)
    /\ result' = [op |-> "build_model_window", arg |-> max_turns,
                  status |-> IF ret'.kind = "list" THEN "ok" ELSE "AttributeError"]
    /\ UNCHANGED <<cur, store, config, clock, uuid, pc, failed, sinceComplete>>

NextWindow == \E max_turns \in WindowLimits : BuildWindow(max_turns)

SpecWindow == InitWindow /\ [][NextWindow]_vars

(***************************************************************************)
(* LMStudioClient.chat_completion on its own: the messages are the window  *)
(* of any conversation, model_state is what the server says of the model   *)
(* (or that it does not say), outcome what it does with the request.       *)
(***************************************************************************)
ModelStates == {"loaded", "not_loaded", "info_fails"}

\* class ModelNotLoadedError(LMStudioError), class ConnectionError(LMStudioError)
IsLMStudioError(e) == e \in {"LMStudioError", "ModelNotLoadedError", "ConnectionError"}

\* the try block that checks the model: what leaves it, "none" when the
\* except clause has caught what was raised and logged the warning
model_check(model_state) ==
    LET raised == IF model_state = "info_fails" THEN "LMStudioError"
                  ELSE IF model_state = "not_loaded" THEN "ModelNotLoadedError"
                  ELSE "none"
    IN IF IsLMStudioError(raised) THEN "none" ELSE raised

\* chat_completion(messages): how it ends, what it returns, and whether the
\* POST /chat/completions was made
client_chat_completion(messages, model_state, outcome) ==
    IF model_check(model_state) # "none"
    THEN [status |-> model_check(model_state), sent |-> FALSE, ret |-> None]
    ELSE IF request_raises(messages)
    THEN [status |-> "AttributeError", sent |-> FALSE, ret |-> None]
    ELSE IF outcome = "interrupt"
    THEN [status |-> "KeyboardInterrupt", sent |-> TRUE, ret |-> None]
    ELSE IF outcome = "error"
    THEN [status |-> "LMStudioError", sent |-> TRUE, ret |-> None]
    ELSE [status |-> "ok", sent |-> TRUE, ret |-> ChatResponse("sure")]

ChatCompletion(model_state, outcome) ==
    /\ result.op = "none"
    /\ get_messages_for_llm(cur, None).kind = "list"
    /\ \E r \in {client_chat_completion(get_messages_for_llm(cur, None).items, model_state, outcome)} :
          /\ ret' = r.ret
          /\ result' = [op |-> "chat_completion", arg |-> Str(model_state),
                        status |-> r.status, sent |-> r.sent]
    /\ UNCHANGED <<cur, store, config, clock, uuid, pc, failed, sinceComplete>>

NextClient == \E model_state \in ModelStates, outcome \in ModelOutcomes : ChatCompletion(model_state, outcome)

SpecClient == InitWindow /\ [][NextClient]_vars

(***************************************************************************)
(* Properties.                                                             *)
(***************************************************************************)
LastTurn(conv) == conv.turns[Len(conv.turns)]

Complete(turn) == turn.assistant_response # None

\* C1: in every state of the chat loop at most one turn of the current
\* conversation has no assistant response, and if there is one it is the last.
C1_OnlyLastTurnIncomplete ==
    Truthy(cur) => \A i \in 1..(Len(cur.turns) - 1) : Complete(cur.turns[i])

\* C2: right after a successful save, loading the conversation's id gives a
\* conversation equal to the saved one in every field, turns included.
C2_SaveLoadRoundTrip ==
    (result.op = "save" /\ result.status = "ok")
        => load_conversation(store, cur.id) = [status |-> "ok", ret |-> cur]

\* the messages the specification asks of a sequence of turns: each turn's user
\* message, followed by its assistant message when the turn is complete
RECURSIVE WindowOf(_)
WindowOf(turns) ==
    IF turns = <<>> THEN <<>>
    ELSE <<Head(turns).user_message>>
         \o (IF Complete(Head(turns)) THEN <<Head(turns).assistant_response.message>> ELSE <<>>)
         \o WindowOf(Tail(turns))

SystemPart(conv) ==
    IF conv.system_prompt # None /\ conv.system_prompt # Str("")
    THEN <<[kind |-> "ChatMessage", role |-> "system", content |-> conv.system_prompt.s]>>
    ELSE <<>>

\* C3: build_model_window returns the system prompt first if there is one, then
\* for each included turn, in order, its user message followed by its assistant
\* message only if the turn is complete.
C3_WindowContents ==
    result.op = "build_model_window"
        => /\ ret.kind = "list"
           /\ \E first \in 1..(Len(cur.turns) + 1) :
                 ret.items = SystemPart(cur) \o WindowOf(SubSeq(cur.turns, first, Len(cur.turns)))

Min(a, b) == IF a < b THEN a ELSE b

\* C4: with max_turns = k >= 1 the window holds exactly the last min(k, n) turns,
\* with max_turns None or 0 all n turns.
C4_WindowSize ==
    (result.op = "build_model_window" /\ (result.arg = None \/ result.arg.n >= 0))
        => LET n == Len(cur.turns)
               m == IF result.arg = None \/ result.arg.n = 0 THEN n ELSE Min(result.arg.n, n)
           IN /\ ret.kind = "list"
              /\ ret.items = SystemPart(cur) \o WindowOf(SubSeq(cur.turns, n - m + 1, n))

\* C5: append_user_message on an active conversation keeps every earlier turn,
\* in order, adds exactly one turn at the end that wraps the text as a user
\* message and has no response, and updates the last-updated time.
C5_AppendFrame ==
    [][(result'.op = "add_user_message" /\ Truthy(cur))
        => /\ Len(cur'.turns) = Len(cur.turns) + 1
           /\ SubSeq(cur'.turns, 1, Len(cur.turns)) = cur.turns
           /\ LastTurn(cur').user_message
                 = [kind |-> "ChatMessage", role |-> "user", content |-> result'.arg.s]
           /\ LastTurn(cur').assistant_response = None
           /\ ret' = LastTurn(cur')
           /\ cur'.updated_at.t > cur.updated_at.t
           /\ cur'.updated_at.t >= LastTurn(cur').timestamp.t
           /\ [cur' EXCEPT !.turns = <<>>, !.updated_at = None]
                 = [cur EXCEPT !.turns = <<>>, !.updated_at = None]]_vars

C5_Witness ==
    /\ result.op = "add_user_message"
    /\ Len(cur.turns) >= 2
    /\ Complete(cur.turns[1])

\* C6: complete_with_response fails with NoActiveConversation when no
\* conversation is active, with NoIncompleteTurn when there are no turns or the
\* last turn has a response, and a failure leaves the conversation unchanged.
C6_CompleteFailures ==
    [][result'.op = "add_assistant_response"
        => /\ ~Truthy(cur) => (result'.status = "NoActiveConversation" /\ cur' = cur)
           /\ (Truthy(cur) /\ (cur.turns = <<>> \/ Complete(LastTurn(cur))))
                 => (result'.status = "NoIncompleteTurn" /\ cur' = cur)
           /\ result'.status # "ok" => (cur' = cur /\ clock' = clock)]_vars

C6_Witness ==
    /\ result = [op |-> "add_assistant_response", arg |-> Str("sure"), status |-> "NoIncompleteTurn"]
    /\ Truthy(cur)
    /\ cur.turns # <<>>
    /\ Complete(LastTurn(cur))

\* C7: once a response has been attached, complete_with_response fails with
\* NoIncompleteTurn and leaves the conversation as it is until a user message
\* is appended.
C7_SecondCompleteFails ==
    [][(sinceComplete /\ result'.op = "add_assistant_response")
        => (result'.status = "NoIncompleteTurn" /\ cur' = cur)]_vars

C7_Witness ==
    /\ sinceComplete
    /\ result.op = "add_assistant_response"
    /\ result.status = "NoIncompleteTurn"
    /\ cur.turns # <<>>

\* C8: a chat message whose model call fails or is interrupted leaves the
\* conversation as it was before the user message was appended.
C8_FailedCallDiscardsTurn ==
    [][(result'.op = "chat" /\ result'.status # "ok") => cur' = cur]_vars

\* C9: in the chat loop a turn whose model call failed or was interrupted never
\* has an assistant response, neither in memory nor in a stored document.
C9_NoResponseAfterFailure ==
    /\ Truthy(cur) => \A i \in 1..Len(cur.turns) :
                          cur.turns[i].id \in failed => ~Complete(cur.turns[i])
    /\ \A id \in DOMAIN store :
          store[id] # Truncated
              => \A i \in 1..Len(store[id].turns) :
                    store[id].turns[i].id \in failed
                        => store[id].turns[i].assistant_response = None

C9_Witness ==
    /\ Truthy(cur)
    /\ \E i, j \in 1..Len(cur.turns) :
          /\ i < j
          /\ cur.turns[i].id \in failed
          /\ Complete(cur.turns[j])

\* C10 as stated: as soon as the manager's load has returned, the manager's
\* current conversation is the deserialized record.
C10_ManagerLoadReplaces ==
    (result.op = "load" /\ result.status = "ok") => cur = ret

\* C10 as amended: the manager's load returns the deserialized record of the id,
\* and once the /load command has assigned it, the current conversation is
\* exactly that record.
C10_LoadCommandReplaces ==
    (result.op = "load" /\ result.status = "ok")
        => /\ ret = from_dict(store[result.arg.n])
           /\ pc = "input" => cur = ret

C10_Witness ==
    /\ result.op = "load" /\ result.status = "ok"
    /\ pc = "input"
    /\ cur.turns # <<>>
    /\ \E id \in DOMAIN store : id > cur.id + Len(cur.turns)

\* C11: load of an id with no stored document fails with NotFound and leaves
\* the current conversation and every stored document as they were.
C11_LoadMissingNotFound ==
    [][(result'.op = "load" /\ result'.arg.n \notin DOMAIN store)
        => /\ result'.status = "NotFound"
           /\ ret' = None
           /\ cur' = cur
           /\ store' = store
           /\ pc' = "input"]_vars

C11_Witness ==
    /\ result.op = "load" /\ result.status = "NotFound"
    /\ Truthy(cur)
    /\ cur.turns # <<>>
    /\ cur.id \in DOMAIN store

(***************************************************************************)
(* The sessions directory as load_conversation and list_conversations find *)
(* it: the files may have been written by save_conversation, cut short by  *)
(* a failed write, or edited or copied in by hand.                         *)
(***************************************************************************)
MaxFiles == 3         \* files in the sessions directory

FileNames == 1..MaxFiles

\* a conversation with one complete turn, last updated at tick t
StoredConversation(id, t) ==
    Conversation(id, Str("Trip"), Datetime(0), Datetime(t),
                 <<ConversationTurn(id, Datetime(0), ChatMessage("user", "hi"), ChatResponse("sure"))>>,
                 Str("Be brief"), [style |-> DefaultStyle])

\* {"id": ...} and nothing else
OnlyId(id) == [kind |-> "dict", id |-> id]

\* a document whose created_at is text that is no ISO date
BadTimestamp(id) == [to_dict(StoredConversation(id, 1)) EXCEPT !.created_at = Str("yesterday")]

\* a document whose updated_at is null
NullUpdated(id) == [to_dict(StoredConversation(id, 1)) EXCEPT !.updated_at = None]

\* a document whose only turn has a user message without "content"
NoContent(id) ==
    [to_dict(StoredConversation(id, 1)) EXCEPT
        !.turns = <<[kind |-> "dict", id |-> id, timestamp |-> isoformat(Datetime(0)),
                     user_message |-> [kind |-> "dict", role |-> "user"],
                     assistant_response |-> None]>>]

\* the kinds of content of a file: a conversation saved at tick k, or one of
\* the five damaged documents
Shapes == 1..(MaxFiles + 5)

\* what the file <id>.json holds when its content is of kind k
StoredDoc(id, k) ==
    IF k <= MaxFiles THEN to_dict(StoredConversation(id, k))
    ELSE IF k = MaxFiles + 1 THEN Truncated
    ELSE IF k = MaxFiles + 2 THEN OnlyId(id)
    ELSE IF k = MaxFiles + 3 THEN BadTimestamp(id)
    ELSE IF k = MaxFiles + 4 THEN NullUpdated(id)
    ELSE NoContent(id)

Directories ==
    UNION { { [id \in names |-> StoredDoc(id, shape[id])] : shape \in [names -> Shapes] } :
              names \in SUBSET FileNames }

InitStore ==
    /\ cur \in {None, start_new_conversation(None, None, Datetime(0), 0)}
    /\ store \in Directories
    /\ config = [max_session_memory |-> 50, auto_save_sessions |-> TRUE]
    /\ clock = 1
    /\ uuid = 0
    /\ pc = "input"
    /\ result = NoResult
    /\ ret = None
    /\ failed = {}
    /\ sinceComplete = FALSE

NextStore ==
    \/ result.op = "none" /\ \E id \in Ids : CmdLoad(id)
    \/ CmdLoadAssign
    \/ result.op = "none" /\ \E io \in IoOutcomes : ApiSaveConversation(io)
    \/ result.op = "none" /\ \E order \in GlobOrders(store) : ApiListConversations(order)

SpecStore == InitStore /\ [][NextStore]_vars

\* a document that deserializes to a well-formed Conversation: every field of
\* the conversation, of its turns and of their messages is there
WellFormedMessage(m) == m.kind = "dict" /\ {"role", "content"} \subseteq DOMAIN m

WellFormedTurn(t) ==
    /\ {"id", "timestamp", "user_message"} \subseteq DOMAIN t
    /\ t.timestamp.kind = "isostr"
    /\ WellFormedMessage(t.user_message)

WellFormedDoc(d) ==
    /\ d.kind = "dict"
    /\ {"id", "title", "created_at", "updated_at", "turns"} \subseteq DOMAIN d
    /\ d.created_at.kind = "isostr"
    /\ d.updated_at.kind = "isostr"
    /\ \A i \in 1..Len(d.turns) : WellFormedTurn(d.turns[i])

\* C12: load of a stored document that does not hold a well-formed conversation
\* fails with an error other than NotFound, returns no conversation and leaves
\* the current conversation as it was.
C12_CorruptRecordFails ==
    [][(result'.op = "load" /\ result'.arg.n \in DOMAIN store /\ ~WellFormedDoc(store[result'.arg.n]))
        => /\ result'.status \notin {"ok", "NotFound"}
           /\ ret' = None
           /\ cur' = cur]_vars

\* C13: save with no active conversation fails with NoConversation and creates
\* or modifies no stored document.
C13_SaveWithoutConversation ==
    [][(result'.op = "save_conversation" /\ ~Truthy(cur))
        => /\ result'.status = "NoConversation"
           /\ store' = store
           /\ cur' = cur]_vars

C13_Witness ==
    /\ result.op = "save_conversation" /\ result.status = "NoConversation"
    /\ cur = None
    /\ DOMAIN store # {}

\* the document holds this turn, field by field
TurnStored(d, turn) ==
    /\ d.kind = "dict"
    /\ d.id = turn.id
    /\ d.timestamp.digits = turn.timestamp.t
    /\ d.user_message.role = turn.user_message.role
    /\ d.user_message.content = turn.user_message.content
    /\ (d.assistant_response = None) = (turn.assistant_response = None)
    /\ turn.assistant_response # None
          => d.assistant_response.message.content = turn.assistant_response.message.content

\* C14: after a successful save the document under the conversation's id is the
\* serialization of the whole conversation as it is then, every turn included,
\* whatever was stored there before; documents under other ids are unchanged.
C14_SaveWritesWholeDocument ==
    [][(result'.op = "save" /\ result'.status = "ok")
        => /\ cur' = cur
           /\ DOMAIN store' = DOMAIN store \cup {cur.id}
           /\ \A id \in DOMAIN store \ {cur.id} : store'[id] = store[id]
           /\ LET d == store'[cur.id]
              IN /\ d.kind = "dict"
                 /\ d.id = cur.id
                 /\ d.title = cur.title
                 /\ d.created_at.digits = cur.created_at.t
                 /\ d.updated_at.digits = cur.updated_at.t
                 /\ d.system_prompt = cur.system_prompt
                 /\ d.metadata = cur.metadata
                 /\ Len(d.turns) = Len(cur.turns)
                 /\ \A i \in 1..Len(cur.turns) : TurnStored(d.turns[i], cur.turns[i])]_vars

C14_Witness ==
    /\ result.op = "save" /\ result.status = "ok"
    /\ cur.turns # <<>>
    /\ Complete(cur.turns[1])
    /\ \E id \in DOMAIN store : id # cur.id

\* C15: no save, failed or not, leaves a partially written document in the
\* sessions directory.
C15_NoPartialDocument ==
    \A id \in DOMAIN store : store[id] # Truncated

\* a document as save_conversation writes it
Listable(d) == d # Truncated /\ WellFormedDoc(d)

\* the place of the file id in the enumeration
PlaceIn(order, id) == CHOOSE i \in 1..Len(order) : order[i] = id

\* C16: the listing has one summary per persisted conversation, ordered by
\* updated_at descending; summaries with equal updated_at keep the order in
\* which the directory enumeration gave them.
C16_ListOrder ==
    [][(result'.op = "list_conversations"
          /\ \A id \in DOMAIN store : Listable(store[id]))
        => LET items == ret'.items
               order == result'.arg.seq
           IN /\ result'.status = "ok"
              /\ Len(items) = Cardinality(DOMAIN store)
              /\ \A id \in DOMAIN store : \E i \in 1..Len(items) : items[i] = summary(store[id])
              /\ \A i, j \in 1..Len(items) :
                    i < j => \/ items[i].updated_at.digits > items[j].updated_at.digits
                             \/ /\ items[i].updated_at.digits = items[j].updated_at.digits
                                /\ PlaceIn(order, items[i].id) < PlaceIn(order, items[j].id)
              /\ store' = store /\ cur' = cur]_vars

\* three conversations updated at t1 < t2 < t3, found in the order t2, t1, t3
C16_Witness ==
    /\ result.op = "list_conversations" /\ result.status = "ok"
    /\ Len(ret.items) = 3
    /\ ret.items[1].updated_at.digits > ret.items[2].updated_at.digits
    /\ ret.items[2].updated_at.digits > ret.items[3].updated_at.digits
    /\ result.arg.seq = <<ret.items[2].id, ret.items[3].id, ret.items[1].id>>

\* C17: whatever the documents hold, the listing succeeds: it skips the
\* documents that do not parse and has a summary for every other one.
C17_ListNeverFails ==
    [][result'.op = "list_conversations"
        => /\ result'.status = "ok"
           /\ \A id \in DOMAIN store :
                 ~list_skips(store[id]) => \E i \in 1..Len(ret'.items) : ret'.items[i] = summary(store[id])]_vars

\* C18: auto_save creates or modifies no stored document when the auto-save
\* flag is off or no conversation is active; with the flag on and a conversation
\* active it saves the current conversation and touches no other document.
C18_AutoSaveEffect ==
    [][result'.op = "auto_save"
        => /\ cur' = cur
           /\ (~config.auto_save_sessions \/ ~Truthy(cur)) => store' = store
           /\ (config.auto_save_sessions /\ Truthy(cur))
                 => /\ \A id \in DOMAIN store \ {cur.id} :
                          id \in DOMAIN store' /\ store'[id] = store[id]
                    /\ DOMAIN store' \subseteq DOMAIN store \cup {cur.id}
                    /\ result'.io = "ok"
                          => cur.id \in DOMAIN store' /\ store'[cur.id] = to_dict(cur)]_vars

C18_Witness ==
    /\ result.op = "auto_save" /\ result.io = "ok"
    /\ config.auto_save_sessions
    /\ Truthy(cur) /\ cur.turns # <<>>
    /\ store[cur.id] = to_dict(cur)
    /\ \E id \in DOMAIN store : id # cur.id

\* C19: when the save of the auto-save after a reply fails, nothing is raised:
\* the message is reported as answered, the conversation keeps the turn with its
\* reply, and the loop is back at its prompt.
C19_AutoSaveFailureSwallowed ==
    [][(result'.op = "chat" /\ result'.io \in {"open_fails", "write_fails"})
        => /\ result'.status = "ok"
           /\ pc' = "input"
           /\ Truthy(cur')
           /\ Len(cur'.turns) = (IF Truthy(cur) THEN Len(cur.turns) ELSE 0) + 1
           /\ Complete(LastTurn(cur'))
           /\ LastTurn(cur').user_message.content = result'.arg.s
           /\ Truthy(cur) => SubSeq(cur'.turns, 1, Len(cur.turns)) = cur.turns]_vars

C19_Witness ==
    /\ result.op = "chat" /\ result.io = "write_fails" /\ result.status = "ok"
    /\ pc = "input"
    /\ Len(cur.turns) = 2
    /\ store[cur.id] = Truncated

\* C20: start makes a conversation with an id never generated before, no turns
\* and created_at equal to updated_at the current one, whatever the current one
\* was; the store is unchanged.
C20_StartFresh ==
    [][result'.op = "start"
        => /\ Truthy(cur')
           /\ cur'.turns = <<>>
           /\ cur'.created_at = cur'.updated_at
           /\ cur'.id > uuid
           /\ cur'.id \notin DOMAIN store
           /\ Truthy(cur) => cur'.id # cur.id /\ \A i \in 1..Len(cur.turns) : cur.turns[i].id # cur'.id
           /\ ret' = cur'
           /\ store' = store]_vars

\* a start after every other id was drawn, with documents of earlier conversations stored
C20_Witness ==
    /\ result.op = "start"
    /\ cur.turns = <<>>
    /\ cur.id = MaxUuid
    /\ cur.id \notin DOMAIN store
    /\ DOMAIN store # {}

\* C21: append_user_message with no conversation active starts one: afterwards
\* a conversation is active and holds exactly one turn, the new one, which wraps
\* the text and has no response.
C21_AppendStartsConversation ==
    [][(result'.op = "add_user_message" /\ ~Truthy(cur))
        => /\ Truthy(cur')
           /\ cur'.kind = "Conversation"
           /\ cur'.id > uuid
           /\ Len(cur'.turns) = 1
           /\ cur'.turns[1].user_message
                 = [kind |-> "ChatMessage", role |-> "user", content |-> result'.arg.s]
           /\ cur'.turns[1].assistant_response = None
           /\ ret' = cur'.turns[1]
           /\ store' = store]_vars

C21_Witness ==
    /\ result.op = "add_user_message"
    /\ Len(cur.turns) = 1
    /\ cur.title = DefaultTitle(cur.created_at)
    /\ cur.turns[1].id = cur.id + 1

\* the same instant: the same tick in the same time zone
SameInstant(a, b) ==
    /\ a.kind = "datetime" /\ b.kind = "datetime"
    /\ a.t = b.t
    /\ a.tz = b.tz

\* C22: right after a successful save, the conversation that load gives back
\* has the same created_at, the same updated_at and, turn by turn, the same
\* timestamp as the conversation saved.
C22_TimestampsRoundTrip ==
    (result.op = "save" /\ result.status = "ok")
        => /\ load_conversation(store, cur.id).status = "ok"
           /\ LET loaded == load_conversation(store, cur.id).ret
              IN /\ SameInstant(loaded.created_at, cur.created_at)
                 /\ SameInstant(loaded.updated_at, cur.updated_at)
                 /\ Len(loaded.turns) = Len(cur.turns)
                 /\ \A i \in 1..Len(cur.turns) :
                       SameInstant(loaded.turns[i].timestamp, cur.turns[i].timestamp)

C22_Witness ==
    /\ result.op = "save" /\ result.status = "ok"
    /\ Len(cur.turns) = 2
    /\ cur.created_at.t < cur.turns[1].timestamp.t
    /\ cur.turns[1].timestamp.t < cur.turns[2].timestamp.t
    /\ cur.turns[2].timestamp.t < cur.updated_at.t

\* C23: get_messages_for_llm and list_conversations, whether they return or
\* raise, leave the current conversation (which one it is, its turns, their
\* responses, its updated_at) and every stored document as they were.
C23_ReadOnlyOperations ==
    [][result'.op \in {"get_messages_for_llm", "list_conversations"}
        => /\ cur' = cur
           /\ store' = store]_vars

C23_Witness ==
    /\ result.op = "get_messages_for_llm" /\ result.status = "ok"
    /\ config.max_session_memory = 1
    /\ Truthy(cur)
    /\ Len(cur.turns) = 2
    /\ Complete(cur.turns[1])
    /\ DOMAIN store # {}

\* C24: when a chat message or a command of the chat loop ends with an error
\* (the model call fails, a save fails, a load fails), the error is what the
\* user is shown and the loop is at its prompt again.
C24_ErrorsKeepLoopRunning ==
    [][(pc = "input" /\ result'.op \in {"chat", "save", "load", "quit", "new", "clear", "help"}
          /\ result'.status \notin {"ok", "declined", "KeyboardInterrupt"})
        => /\ pc' = "input"
           /\ result'.status \in {"LMStudioError", "AttributeError", "PersistenceError", "NoConversation", "NotFound",
                                  "JSONDecodeError", "KeyError", "TypeError", "ValueError"}]_vars

C24_Witness ==
    /\ result.op = "save" /\ result.status = "PersistenceError"
    /\ pc = "input"
    /\ Truthy(cur)
    /\ cur.turns # <<>>
    /\ failed # {}

\* C25: the export of an id whose document a save has written in full writes
\* that very document: the same fields with the same values, for the
\* conversation and for each of its turns; the stored document stays as it is.
C25_ExportVerbatim ==
    [][(result'.op = "export" /\ result'.arg.n \in DOMAIN store
          /\ store[result'.arg.n] # Truncated)
        => /\ result'.status = "ok"
           /\ ret' = store[result'.arg.n]
           /\ store' = store]_vars

C25_Witness ==
    /\ result.op = "export" /\ result.status = "ok"
    /\ Len(ret.turns) = 2
    /\ ret.turns[1].assistant_response # None
    /\ ret.turns[2].assistant_response = None

\* C26: while the same conversation stays current, add_user_message,
\* add_assistant_response, get_messages_for_llm, save_conversation and auto_save
\* keep every turn there is, in its place and with its id, timestamp and user
\* message; only add_user_message adds a turn, at the end; only
\* add_assistant_response changes a turn, and of it only the response of the
\* last one.
C26_TurnsAppendOnly ==
    [][(Truthy(cur) /\ result'.op \in {"add_user_message", "add_assistant_response",
                                       "get_messages_for_llm", "save_conversation", "auto_save"})
        => /\ Truthy(cur') /\ cur'.id = cur.id
           /\ Len(cur'.turns) >= Len(cur.turns)
           /\ \A i \in 1..Len(cur.turns) :
                 [cur'.turns[i] EXCEPT !.assistant_response = None]
                    = [cur.turns[i] EXCEPT !.assistant_response = None]
           /\ \A i \in 1..(Len(cur.turns) - 1) : cur'.turns[i] = cur.turns[i]
           /\ result'.op # "add_assistant_response" => SubSeq(cur'.turns, 1, Len(cur.turns)) = cur.turns
           /\ result'.op # "add_user_message" => Len(cur'.turns) = Len(cur.turns)
           /\ result'.op = "add_user_message" => Len(cur'.turns) = Len(cur.turns) + 1
           /\ (result'.op = "add_assistant_response" /\ result'.status = "ok")
                 => /\ LastTurn(cur).assistant_response = None
                    /\ LastTurn(cur').assistant_response.message.content = result'.arg.s]_vars

C26_Witness ==
    /\ result.op = "add_assistant_response" /\ result.status = "ok"
    /\ Len(cur.turns) = 2
    /\ Complete(cur.turns[1])
    /\ Complete(cur.turns[2])
    /\ cur.id \in DOMAIN store

\* C27: chat_completion for a model the server reports as not loaded raises
\* ModelNotLoadedError and makes no chat-completion request.
C27_NotLoadedRaises ==
    [][(result'.op = "chat_completion" /\ result'.arg = Str("not_loaded"))
        => /\ result'.status = "ModelNotLoadedError"
           /\ ~result'.sent
           /\ ret' = None]_vars

\* the same list of messages: the same roles and contents in the same order
SameMessages(a, b) ==
    /\ a.kind = "list" /\ b.kind = "list"
    /\ Len(a.items) = Len(b.items)
    /\ \A i \in 1..Len(a.items) :
          /\ a.items[i].role = b.items[i].role
          /\ a.items[i].content = b.items[i].content

\* C28: right after a successful save of a conversation whose window can be
\* built, the window of the conversation that load gives back has the same
\* messages as the window of the conversation saved.
C28_LoadedWindowSame ==
    (result.op = "save" /\ result.status = "ok"
       /\ manager_get_messages_for_llm(cur, config).kind = "list")
        => SameMessages(manager_get_messages_for_llm(load_conversation(store, cur.id).ret, config),
                        manager_get_messages_for_llm(cur, config))

\* C29: every /quit ends the chat loop: with or without a conversation, saved
\* or not, whether the save succeeds or fails.
C29_QuitEndsLoop ==
    [][result'.op = "quit" => pc' = "done"]_vars

\* C30: for a conversation built in the session whose last turn is the user
\* message just appended, the window built with any integer limit is a list
\* whose last message is that user message.
C30_WindowEndsWithNewMessage ==
    (result.op = "build_model_window" /\ result.arg # None
       /\ cur.turns # <<>>
       /\ ~Complete(LastTurn(cur))
       /\ ~raises_attribute_error(cur.turns))
        => /\ ret.kind = "list"
           /\ ret.items # <<>>
           /\ ret.items[Len(ret.items)].role = "user"
           /\ ret.items[Len(ret.items)].content = LastTurn(cur).user_message.content

====
